---------------------------- MODULE Spec2Model ----------------------------
(***************************************************************************)
(* MacroModelEnergy.get_energy (stk/calculators/energy/macromodel.py).      *)
(*                                                                         *)
(* Text is modelled as sequences of one-character strings, so that the     *)
(* substring tests, str.split, str.replace and float of the source are      *)
(* computed character by character.  A file is a record with its name, the *)
(* attempt that created it and its content.                                *)
(***************************************************************************)
EXTENDS Integers, Sequences, FiniteSets

(***************************************************************************)
(* Bounds of the model.                                                    *)
(***************************************************************************)
NumCallers == 2      \* concurrent callers of get_energy in Spec
MaxDepth == 3        \* nested attempts of one call (license retries + 1)
MaxLines == 3        \* lines of a log fixture in ParseSpec
ExtraLead == 1       \* spaces printed before the marker's own spaces
MaxSep == 1          \* spaces between "=" and the value
MaxTrail == 1        \* spaces between the unit and the newline

(***************************************************************************)
(* Program constants.                                                      *)
(***************************************************************************)
MarkerLead == 19     \* spaces that open the marker literal of line 141

None == <<>>         \* output_dir=None of line 18; a directory name is not empty
Unbound == <<>>      \* eng before line 142 assigns it; a number is a pair

Spaces(n) == [i \in 1..n |-> " "]

\* line 141: "                   Total Energy ="
Marker ==
    Spaces(MarkerLead) \o
    <<"T","o","t","a","l"," ","E","n","e","r","g","y"," ","=">>

\* line 134: 'FATAL -96: Could not check out a license for mmlibs'
LicenseFailure ==
    <<"F","A","T","A","L"," ","-","9","6",":"," ",
      "C","o","u","l","d"," ","n","o","t"," ",
      "c","h","e","c","k"," ","o","u","t"," ","a"," ",
      "l","i","c","e","n","s","e"," ","f","o","r"," ",
      "m","m","l","i","b","s">>

(***************************************************************************)
(* Python text primitives.  Where a primitive reads its text many times    *)
(* it is applied as a function, f[s \in {text}], so that the text is a     *)
(* value before the primitive reads it; recursion runs over positions.     *)
(***************************************************************************)
Digits == <<"0","1","2","3","4","5","6","7","8","9">>

IsDigit(c) == \E d \in 1..10 : Digits[d] = c

DigitVal(c) == (CHOOSE d \in 1..10 : Digits[d] = c) - 1

\* str(n) for n >= 0: the decimal digits, no padding
Str(n) ==
    LET str[k \in Nat] == IF k < 10 THEN <<Digits[k + 1]>>
                          ELSE str[k \div 10] \o <<Digits[(k % 10) + 1]>>
    IN  str[n]

\* s.startswith(pre); glob(f'{pre}*') matches exactly these names
StartsWith(s, pre) ==
    /\ Len(pre) <= Len(s)
    /\ SubSeq(s, 1, Len(pre)) = pre

\* sub in s
ContainsText(s, sub) ==
    \E i \in 0..(Len(s) - Len(sub)) : SubSeq(s, i + 1, i + Len(sub)) = sub

Contains(text, part) ==
    LET contains[s \in {text}, sub \in {part}] == ContainsText(s, sub)
    IN  contains[text, part]

IsSpace(c) == c \in {" ", "\t", "\n"}

\* the least member of the set of positions S, or otherwise when S is empty
Least(S, otherwise) ==
    IF S = {} THEN otherwise ELSE CHOOSE i \in S : \A j \in S : i <= j

\* s.split(): the maximal runs of non-whitespace characters, in order;
\* from[i] is the tokens that begin at position i or later
SplitText(s) ==
    LET from[i \in 1..(Len(s) + 1)] ==
            LET b == Least({j \in i..Len(s) : ~IsSpace(s[j])}, Len(s) + 1)
                e == Least({j \in b..Len(s) : IsSpace(s[j])}, Len(s) + 1)
            IN  IF b > Len(s) THEN <<>>
                ELSE <<SubSeq(s, b, e - 1)>> \o from[e]
    IN  from[1]

Split(text) == LET split[s \in {text}] == SplitText(s) IN split[text]

\* s.replace(ch, "")
Replace(s, ch) == SelectSeq(s, LAMBDA c : c # ch)

\* for line in f: the lines of the content, each with its newline; a last
\* line without newline is a line too; from[i] is the lines from position i
LinesOfText(s) ==
    LET from[i \in 1..(Len(s) + 1)] ==
            LET e == Least({j \in i..Len(s) : s[j] = "\n"}, Len(s))
            IN  IF i > Len(s) THEN <<>>
                ELSE <<SubSeq(s, i, e)>> \o from[e + 1]
    IN  from[1]

Lines(text) == LET lines[s \in {text}] == LinesOfText(s) IN lines[text]

(***************************************************************************)
(* float(s) on decimal literals: [sign] digits [. digits] and [sign] .     *)
(* digits.  A number is <<m, e>>, the value m / 10^e with the trailing     *)
(* zeros of the fraction dropped; any other text (empty, letters, "*",     *)
(* a lone sign or dot) raises ValueError.  Exponents, "inf", "nan" and     *)
(* underscores are not written by the log fixtures of this model.          *)
(***************************************************************************)
ValueError == "ValueError"

\* the number written by the digits s; upto[n] is that of the first n
DigitsValOfText(s) ==
    LET upto[n \in 0..Len(s)] == IF n = 0 THEN 0
                                 ELSE 10 * upto[n - 1] + DigitVal(s[n])
    IN  upto[Len(s)]

DigitsVal(text) == LET digits[s \in {text}] == DigitsValOfText(s) IN digits[text]

AllDigits(s) == \A i \in 1..Len(s) : IsDigit(s[i])

\* m / 10^e without the trailing zeros of the fraction
Normal(m, e) ==
    LET normal[x \in Int \X Nat] ==
            IF x[2] > 0 /\ x[1] % 10 = 0
            THEN normal[<<x[1] \div 10, x[2] - 1>>] ELSE x
    IN  normal[<<m, e>>]

DotAt(s) == IF \E i \in 1..Len(s) : s[i] = "."
            THEN CHOOSE i \in 1..Len(s) : s[i] = "." /\ \A j \in 1..(i - 1) : s[j] # "."
            ELSE 0

UnsignedOfText(s) ==
    LET d == DotAt(s)
        ip == IF d = 0 THEN s ELSE SubSeq(s, 1, d - 1)
        fp == IF d = 0 THEN <<>> ELSE SubSeq(s, d + 1, Len(s))
    IN  IF AllDigits(ip) /\ AllDigits(fp) /\ Len(ip) + Len(fp) > 0
        THEN Normal(DigitsVal(ip \o fp), Len(fp))
        ELSE ValueError

Unsigned(text) == LET unsigned[s \in {text}] == UnsignedOfText(s) IN unsigned[text]

FloatOfText(s) ==
    LET signed == s # <<>> /\ s[1] \in {"+", "-"}
        body == IF signed THEN Tail(s) ELSE s
        u == Unsigned(body)
    IN  IF u = ValueError THEN ValueError
        ELSE IF signed /\ s[1] = "-" THEN <<0 - u[1], u[2]>> ELSE u

Float(text) == LET float[s \in {text}] == FloatOfText(s) IN float[text]


(***************************************************************************)
(* What the external tools write.  A log fixture is a sequence of line     *)
(* descriptions; LogText is the text bmin leaves in <token>.log.           *)
(***************************************************************************)
RECURSIVE Pow10(_)
Pow10(e) == IF e = 0 THEN 1 ELSE 10 * Pow10(e - 1)

RECURSIVE Pad(_, _)
Pad(s, n) == IF Len(s) >= n THEN s ELSE Pad(<<"0">> \o s, n)

\* the decimal text of the number <<m, e>>: "-123.456", "10.0"
Format(v) ==
    LET a == IF v[1] < 0 THEN 0 - v[1] ELSE v[1]
        p == Pow10(v[2])
    IN  (IF v[1] < 0 THEN <<"-">> ELSE <<>>) \o Str(a \div p) \o <<".">> \o
        (IF v[2] = 0 THEN <<"0">> ELSE Pad(Str(a % p), v[2]))

Energies == {<<-123456, 3>>, <<10, 0>>}

Unit == <<"k","J","/","m","o","l">>

ReportLabel == <<"T","o","t","a","l"," ","E","n","e","r","g","y"," ","=">>

\* an energy report line: lead spaces, "Total Energy =", sep spaces, the
\* value text, the unit, trail spaces, newline
EnergyLine(lead, sep, form, val, unit, trail) ==
    [kind |-> "energy", lead |-> lead, sep |-> sep, form |-> form,
     val |-> val, unit |-> unit, trail |-> trail]

LicenseLine == [kind |-> "license", lead |-> 0, sep |-> 0, form |-> "none",
                val |-> <<0, 0>>, unit |-> FALSE, trail |-> 0]

OtherLine == [kind |-> "other", lead |-> 0, sep |-> 0, form |-> "none",
              val |-> <<0, 0>>, unit |-> FALSE, trail |-> 0]

ValueText(l) ==
    CASE l.form = "number" -> Format(l.val)
      [] l.form = "stars" -> <<"*","*","*","*">>
      [] OTHER -> <<>>

LineText(l) ==
    CASE l.kind = "energy" ->
           Spaces(l.lead) \o ReportLabel \o
           Spaces(l.sep) \o ValueText(l) \o
           (IF l.unit THEN <<" ">> \o Unit ELSE <<>>) \o
           Spaces(l.trail) \o <<"\n">>
      [] l.kind = "license" -> LicenseFailure \o <<"\n">>
      [] OTHER -> <<" ","B","a","t","c","h","M","i","n",":"," ",
                    "n","o","r","m","a","l","\n">>

RECURSIVE LogText(_)
LogText(log) == IF log = <<>> THEN <<>>
                ELSE LineText(Head(log)) \o LogText(Tail(log))


(***************************************************************************)
(* State.                                                                  *)
(*   cfg      the calculator: _macromodel_path (which binaries exist      *)
(*            under it), _output_dir, _force_field                         *)
(*   pc       each caller's position in get_energy                         *)
(*   stack    each caller's unfinished activations of get_energy, the      *)
(*            innermost last: basename, output_dir, eng, the open log      *)
(*   result   the value or exception on its way to the caller; the caller *)
(*            has it when pc = "done"                                      *)
(*   workdir  the files of the working directory                           *)
(*   dirs     the files moved into directories, with who moved them        *)
(*   used     the uuid4 values drawn so far                                *)
(*   hist     each caller's attempts in order: token, log written, how it  *)
(*            ended, the directory it relocated into                       *)
(***************************************************************************)
VARIABLES cfg, pc, stack, result, workdir, dirs, used, hist

vars == <<cfg, pc, stack, result, workdir, dirs, used, hist>>

OutDir == <<"o","u","t">>

Binaries == {"structconvert", "bmin"}

\* uuid4().int takes 24 to 39 decimal digits; here one or two
UuidInts == {1, 2, 10, 11}

Mol == <<".","m","o","l">>
Mae == <<".","m","a","e">>
Com == <<".","c","o","m">>
Log == <<".","l","o","g">>
OutMaegz == <<"-","o","u","t",".","m","a","e","g","z">>

File(name, by, log) == [name |-> name, by |-> by, log |-> log]

NoResult == [kind |-> "none", v |-> <<>>]
Value(v) == [kind |-> "value", v |-> v]
Raise(e) == [kind |-> e, v |-> <<>>]

Top(p) == stack[p][Len(stack[p])]

\* the attempt the innermost activation of p is
Att(p) == <<p, Len(stack[p])>>

SetTop(p, f) == [stack EXCEPT ![p][Len(stack[p])] = f]

SetHist(p, field, val) == [hist EXCEPT ![p][Len(stack[p])][field] = val]

Callers == DOMAIN pc

\* __init__, lines 47-50
Init0(callers, cfgs) ==
    /\ cfg \in cfgs
    /\ pc = [p \in callers |-> "call"]
    /\ stack = [p \in callers |-> <<>>]
    /\ result = [p \in callers |-> NoResult]
    /\ workdir = {}
    /\ dirs = {}
    /\ used = {}
    /\ hist = [p \in callers |-> <<>>]

Configs == [binaries : SUBSET Binaries, output_dir : {None, OutDir},
            force_field : {16}]

\* Enter with output_dir resolved once, by the outermost activation
EnterInheritsDir(p) ==
    /\ pc[p] = "call"
    /\ \E u \in UuidInts \ used :
         LET basename == Str(u)
             output_dir == IF stack[p] # <<>> THEN stack[p][1].output_dir
                           ELSE IF cfg.output_dir = None THEN basename
                           ELSE cfg.output_dir
         IN  /\ used' = used \cup {u}
             /\ stack' = [stack EXCEPT ![p] = Append(@,
                    [basename |-> basename, output_dir |-> output_dir,
                     eng |-> Unbound, lines |-> <<>>, lineNo |-> 0])]
             /\ hist' = [hist EXCEPT ![p] = Append(@,
                    [token |-> basename, wrote |-> FALSE, log |-> <<>>,
                     end |-> "running", dir |-> None])]
    /\ pc' = [pc EXCEPT ![p] = "write_mol"]
    /\ UNCHANGED <<cfg, result, workdir, dirs>>

\* lines 81-85: a new activation draws its token and resolves output_dir
Enter(p) ==
    /\ pc[p] = "call"
    /\ \E u \in UuidInts \ used :
         LET basename == Str(u)
             output_dir == IF cfg.output_dir = None THEN basename
                           ELSE cfg.output_dir
         IN  /\ used' = used \cup {u}
             /\ stack' = [stack EXCEPT ![p] = Append(@,
                    [basename |-> basename, output_dir |-> output_dir,
                     eng |-> Unbound, lines |-> <<>>, lineNo |-> 0])]
             /\ hist' = [hist EXCEPT ![p] = Append(@,
                    [token |-> basename, wrote |-> FALSE, log |-> <<>>,
                     end |-> "running", dir |-> None])]
    /\ pc' = [pc EXCEPT ![p] = "write_mol"]
    /\ UNCHANGED <<cfg, result, workdir, dirs>>

\* lines 87-88: mol.write(f'{basename}.mol')
WriteMol(p) ==
    /\ pc[p] = "write_mol"
    /\ workdir' = workdir \cup {File(Top(p).basename \o Mol, Att(p), <<>>)}
    /\ pc' = [pc EXCEPT ![p] = "convert"]
    /\ UNCHANGED <<cfg, stack, result, dirs, used, hist>>

\* an exception leaves the activation outside the try of lines 144-150
Throw(p, e) ==
    /\ result' = [result EXCEPT ![p] = Raise(e)]
    /\ hist' = SetHist(p, "end", e)
    /\ pc' = [pc EXCEPT ![p] = "unwind"]

\* lines 90-96: sp.call of structconvert; the exit status is dropped, a
\* missing executable makes sp.call raise FileNotFoundError
StructConvert(p) ==
    /\ pc[p] = "convert"
    /\ IF "structconvert" \notin cfg.binaries
       THEN /\ Throw(p, "FileNotFoundError")
            /\ UNCHANGED workdir
       ELSE /\ \E ok \in BOOLEAN :
                 workdir' = IF ok
                            THEN workdir \cup
                                 {File(Top(p).basename \o Mae, Att(p), <<>>)}
                            ELSE workdir
            /\ pc' = [pc EXCEPT ![p] = "write_com"]
            /\ UNCHANGED <<result, hist>>
    /\ UNCHANGED <<cfg, stack, dirs, used>>

\* lines 99-119: the command script
WriteCom(p) ==
    /\ pc[p] = "write_com"
    /\ workdir' = workdir \cup {File(Top(p).basename \o Com, Att(p), <<>>)}
    /\ pc' = [pc EXCEPT ![p] = "bmin"]
    /\ UNCHANGED <<cfg, stack, result, dirs, used, hist>>

HasLicenseLine(log) == \E i \in 1..Len(log) : log[i].kind = "license"

\* lines 121-127: sp.call of bmin, which writes <token>.log and
\* <token>-out.maegz, or dies before writing anything.  A log reporting
\* the license failure is written only while the model can still nest.
RunBmin(p, logs) ==
    /\ pc[p] = "bmin"
    /\ IF "bmin" \notin cfg.binaries
       THEN /\ Throw(p, "FileNotFoundError")
            /\ UNCHANGED workdir
       ELSE /\ \/ /\ UNCHANGED workdir
                  /\ hist' = hist
               \/ \E log \in logs :
                    /\ HasLicenseLine(log) => Len(stack[p]) < MaxDepth
                    /\ workdir' = workdir \cup
                          {File(Top(p).basename \o Log, Att(p), log),
                           File(Top(p).basename \o OutMaegz, Att(p), <<>>)}
                    /\ hist' = [hist EXCEPT ![p][Len(stack[p])].log = log,
                                             ![p][Len(stack[p])].wrote = TRUE]
            /\ pc' = [pc EXCEPT ![p] = "read_log"]
            /\ UNCHANGED result
    /\ UNCHANGED <<cfg, stack, dirs, used>>


\* open(f'{basename}.log', 'r') finds the file of that name or raises
Named(name) == {f \in workdir : f.name = name}

\* ReadLog that retries once and then goes on to the scan
ReadLogOneRetry(p) ==
    /\ pc[p] = "read_log"
    /\ LET found == Named(Top(p).basename \o Log)
       IN  IF found = {}
           THEN Throw(p, "FileNotFoundError")
           ELSE LET log_content == LogText((CHOOSE f \in found : TRUE).log)
                IN  IF Contains(log_content, LicenseFailure) /\ Len(stack[p]) < 2
                    THEN /\ pc' = [pc EXCEPT ![p] = "call"]
                         /\ hist' = SetHist(p, "end", "retry")
                         /\ UNCHANGED result
                    ELSE /\ pc' = [pc EXCEPT ![p] = "open_log"]
                         /\ UNCHANGED <<result, hist>>
    /\ UNCHANGED <<cfg, stack, workdir, dirs, used>>

\* ReadLog that looks for the energy report before the license failure
ReadLogScanFirst(p) ==
    /\ pc[p] = "read_log"
    /\ LET found == Named(Top(p).basename \o Log)
       IN  IF found = {}
           THEN Throw(p, "FileNotFoundError")
           ELSE LET log_content == LogText((CHOOSE f \in found : TRUE).log)
                IN  IF /\ Contains(log_content, LicenseFailure)
                       /\ ~Contains(log_content, Marker)
                    THEN /\ pc' = [pc EXCEPT ![p] = "call"]
                         /\ hist' = SetHist(p, "end", "retry")
                         /\ UNCHANGED result
                    ELSE /\ pc' = [pc EXCEPT ![p] = "open_log"]
                         /\ UNCHANGED <<result, hist>>
    /\ UNCHANGED <<cfg, stack, workdir, dirs, used>>

\* lines 129-136: read the log; on the license failure call get_energy
\* again and return whatever that call returns
ReadLog(p) ==
    /\ pc[p] = "read_log"
    /\ LET found == Named(Top(p).basename \o Log)
       IN  IF found = {}
           THEN Throw(p, "FileNotFoundError")
           ELSE LET log_content == LogText((CHOOSE f \in found : TRUE).log)
                IN  IF Contains(log_content, LicenseFailure)
                    THEN /\ pc' = [pc EXCEPT ![p] = "call"]
                         /\ hist' = SetHist(p, "end", "retry")
                         /\ UNCHANGED result
                    ELSE /\ pc' = [pc EXCEPT ![p] = "open_log"]
                         /\ UNCHANGED <<result, hist>>
    /\ UNCHANGED <<cfg, stack, workdir, dirs, used>>

\* line 139: the log is opened a second time
OpenLog(p) ==
    /\ pc[p] = "open_log"
    /\ LET found == Named(Top(p).basename \o Log)
       IN  IF found = {}
           THEN /\ Throw(p, "FileNotFoundError")
                /\ UNCHANGED stack
           ELSE /\ stack' = SetTop(p, [Top(p) EXCEPT
                       !.lines = Lines(LogText((CHOOSE f \in found : TRUE).log)),
                       !.lineNo = 0])
                /\ pc' = [pc EXCEPT ![p] = "scan"]
                /\ UNCHANGED <<result, hist>>
    /\ UNCHANGED <<cfg, workdir, dirs, used>>

\* line.split()[-1]
LastToken(tokens) == tokens[Len(tokens)]

\* line.split()[-2]
SecondToLast(tokens) == tokens[Len(tokens) - 1]

\* line 141
IsEnergyLine(line) == Contains(line, Marker)

\* line 142: float(line.split()[-2].replace("=", ""))
ParseEnergy(line) == Float(Replace(SecondToLast(Split(line)), "="))

\* ScanLine that keeps the first value it finds
ScanLineFirstWins(p) ==
    /\ pc[p] = "scan"
    /\ Top(p).lineNo < Len(Top(p).lines)
    /\ LET line == Top(p).lines[Top(p).lineNo + 1]
       IN  IF IsEnergyLine(line) /\ Top(p).eng = Unbound
           THEN IF ParseEnergy(line) = ValueError
                THEN /\ Throw(p, ValueError)
                     /\ UNCHANGED stack
                ELSE /\ stack' = SetTop(p, [Top(p) EXCEPT
                            !.eng = ParseEnergy(line),
                            !.lineNo = @ + 1])
                     /\ UNCHANGED <<pc, result, hist>>
           ELSE /\ stack' = SetTop(p, [Top(p) EXCEPT !.lineNo = @ + 1])
                /\ UNCHANGED <<pc, result, hist>>
    /\ UNCHANGED <<cfg, workdir, dirs, used>>

\* lines 140-142: one turn of the loop over the lines of the log
ScanLine(p) ==
    /\ pc[p] = "scan"
    /\ Top(p).lineNo < Len(Top(p).lines)
    /\ LET line == Top(p).lines[Top(p).lineNo + 1]
       IN  IF IsEnergyLine(line)
           THEN IF ParseEnergy(line) = ValueError
                THEN /\ Throw(p, ValueError)
                     /\ UNCHANGED stack
                ELSE /\ stack' = SetTop(p, [Top(p) EXCEPT
                            !.eng = ParseEnergy(line),
                            !.lineNo = @ + 1])
                     /\ UNCHANGED <<pc, result, hist>>
           ELSE /\ stack' = SetTop(p, [Top(p) EXCEPT !.lineNo = @ + 1])
                /\ UNCHANGED <<pc, result, hist>>
    /\ UNCHANGED <<cfg, workdir, dirs, used>>

\* ScanEnd that raises EnergyError outside the try statement
ScanEndRaisesEarly(p) ==
    /\ pc[p] = "scan"
    /\ Top(p).lineNo = Len(Top(p).lines)
    /\ LET r == IF Top(p).eng = Unbound THEN Raise("EnergyError")
                ELSE Value(Top(p).eng)
       IN  /\ result' = [result EXCEPT ![p] = r]
           /\ hist' = SetHist(p, "end", r.kind)
           /\ pc' = [pc EXCEPT ![p] = IF r.kind = "value" THEN "finally"
                                       ELSE "unwind"]
    /\ UNCHANGED <<cfg, stack, workdir, dirs, used>>

\* lines 144-147: return eng, or EnergyError when eng was never assigned;
\* either way the finally clause runs before the activation is left
ScanEnd(p) ==
    /\ pc[p] = "scan"
    /\ Top(p).lineNo = Len(Top(p).lines)
    /\ LET r == IF Top(p).eng = Unbound THEN Raise("EnergyError")
                ELSE Value(Top(p).eng)
       IN  /\ result' = [result EXCEPT ![p] = r]
           /\ hist' = SetHist(p, "end", r.kind)
    /\ pc' = [pc EXCEPT ![p] = "finally"]
    /\ UNCHANGED <<cfg, stack, workdir, dirs, used>>

\* move_generated_macromodel_files(basename, output_dir): every file of
\* the working directory whose name starts with basename
Moved(basename) == {f \in workdir : StartsWith(f.name, basename)}

\* lines 149-150
Finally(p) ==
    /\ pc[p] = "finally"
    /\ workdir' = workdir \ Moved(Top(p).basename)
    /\ dirs' = dirs \cup {[dir |-> Top(p).output_dir, file |-> f, mover |-> Att(p)] :
                          f \in Moved(Top(p).basename)}
    /\ hist' = SetHist(p, "dir", Top(p).output_dir)
    /\ pc' = [pc EXCEPT ![p] = "unwind"]
    /\ UNCHANGED <<cfg, stack, result, used>>

\* Unwind for line 136 written without its return: the activation below
\* hands on None
UnwindDropsValue(p) ==
    /\ pc[p] = "unwind"
    /\ stack' = [stack EXCEPT ![p] = SubSeq(@, 1, Len(@) - 1)]
    /\ pc' = [pc EXCEPT ![p] = IF Len(stack[p]) = 1 THEN "done" ELSE "unwind"]
    /\ result' = [result EXCEPT ![p] =
                    IF Len(stack[p]) > 1 /\ @.kind = "value" THEN Value(<<>>)
                    ELSE @]
    /\ UNCHANGED <<cfg, workdir, dirs, used, hist>>

\* the value or exception leaves one activation; line 136 of the activation
\* below hands it on unchanged
Unwind(p) ==
    /\ pc[p] = "unwind"
    /\ stack' = [stack EXCEPT ![p] = SubSeq(@, 1, Len(@) - 1)]
    /\ pc' = [pc EXCEPT ![p] = IF Len(stack[p]) = 1 THEN "done" ELSE "unwind"]
    /\ UNCHANGED <<cfg, result, workdir, dirs, used, hist>>

(***************************************************************************)
(* Log fixtures.                                                           *)
(***************************************************************************)
GoodLine == EnergyLine(MarkerLead, 1, "number", <<-123456, 3>>, TRUE, 0)
TenLine == EnergyLine(MarkerLead, 1, "number", <<10, 0>>, TRUE, 0)
BareLine == EnergyLine(0, 1, "number", <<10, 0>>, TRUE, 0)
NoValueLine == EnergyLine(MarkerLead, 1, "missing", <<0, 0>>, TRUE, 0)

\* the logs bmin writes in SeqSpec
FixtureLogs == {<<>>, <<LicenseLine>>, <<LicenseLine, GoodLine>>,
                <<GoodLine>>, <<BareLine>>, <<NoValueLine>>}

\* the logs bmin writes in Spec
ConcurrentLogs == {<<LicenseLine>>, <<GoodLine>>}

Leads == {0, MarkerLead - 1, MarkerLead, MarkerLead + ExtraLead}

\* report lines in every layout, and the ill-formed ones
LayoutLines ==
    {EnergyLine(lead, sep, "number", val, TRUE, trail) :
        lead \in Leads, sep \in 0..MaxSep, val \in Energies, trail \in 0..MaxTrail}
    \cup {EnergyLine(MarkerLead, sep, form, <<0, 0>>, unit, 0) :
        sep \in 0..MaxSep, form \in {"missing", "stars"}, unit \in BOOLEAN}
    \cup {EnergyLine(MarkerLead, 1, "number", <<10, 0>>, FALSE, 0)}

ScanLines == {GoodLine, TenLine, BareLine, NoValueLine, OtherLine}

RECURSIVE SeqsUpTo(_, _)
SeqsUpTo(S, n) ==
    IF n = 0 THEN {<<>>}
    ELSE LET shorter == SeqsUpTo(S, n - 1)
         IN  shorter \cup {Append(q, x) : q \in {r \in shorter : Len(r) = n - 1}, x \in S}

\* the logs bmin writes in ParseSpec: one report line in every layout, alone
\* or next to another line, and every log of up to MaxLines of ScanLines
ParseLogs ==
    {<<l>> : l \in LayoutLines}
    \cup {<<OtherLine, l>> : l \in LayoutLines}
    \cup {<<l, OtherLine>> : l \in LayoutLines}
    \cup SeqsUpTo(ScanLines, MaxLines)

(***************************************************************************)
(* Specifications.                                                         *)
(***************************************************************************)
Installed == {c \in Configs : c.binaries = Binaries}

\* concurrent callers sharing one calculator and one working directory
Init == Init0(1..NumCallers, Installed)

Next ==
    \/ \E p \in Callers : Enter(p)
    \/ \E p \in Callers : WriteMol(p)
    \/ \E p \in Callers : StructConvert(p)
    \/ \E p \in Callers : WriteCom(p)
    \/ \E p \in Callers : RunBmin(p, ConcurrentLogs)
    \/ \E p \in Callers : ReadLog(p)
    \/ \E p \in Callers : OpenLog(p)
    \/ \E p \in Callers : ScanLine(p)
    \/ \E p \in Callers : ScanEnd(p)
    \/ \E p \in Callers : Finally(p)
    \/ \E p \in Callers : Unwind(p)

Spec == Init /\ [][Next]_vars

\* one call, every configuration; the interpreter runs the call to its end
SeqInit == Init0({1}, Configs)

SeqNext ==
    \/ Enter(1)
    \/ WriteMol(1)
    \/ StructConvert(1)
    \/ WriteCom(1)
    \/ RunBmin(1, FixtureLogs)
    \/ ReadLog(1)
    \/ OpenLog(1)
    \/ ScanLine(1)
    \/ ScanEnd(1)
    \/ Finally(1)
    \/ Unwind(1)

SeqSpec == SeqInit /\ [][SeqNext]_vars /\ WF_vars(SeqNext)

\* one call on every log of ParseLogs
ParseNext ==
    \/ Enter(1)
    \/ WriteMol(1)
    \/ StructConvert(1)
    \/ WriteCom(1)
    \/ RunBmin(1, ParseLogs)
    \/ ReadLog(1)
    \/ OpenLog(1)
    \/ ScanLine(1)
    \/ ScanEnd(1)
    \/ Finally(1)
    \/ Unwind(1)

ParseInit == Init0({1}, Installed)

ParseSpec == ParseInit /\ [][ParseNext]_vars


(***************************************************************************)
(* Vocabulary of the properties.  It speaks of the log fixtures, not of    *)
(* their text: a line holds the marker when at least MarkerLead spaces     *)
(* stand right before its "Total Energy =".                                *)
(***************************************************************************)
Done(p) == pc[p] = "done"

Attempts(p) == 1..Len(hist[p])

LastAttempt(p) == hist[p][Len(hist[p])]

HoldsMarker(l) == l.kind = "energy" /\ l.lead >= MarkerLead

WellFormed(l) == l.kind = "energy" /\ l.form = "number" /\ l.unit

MarkerAt(log) == {i \in 1..Len(log) : HoldsMarker(log[i])}

ReportAt(log) == {i \in 1..Len(log) : log[i].kind = "energy"}

LastMarkerLine(log) ==
    log[CHOOSE i \in MarkerAt(log) : \A j \in MarkerAt(log) : j <= i]

\* the log of p's last attempt was written, has no license failure, and
\* every line of it that holds the marker is well formed
CleanLog(p) ==
    /\ hist[p] # <<>>
    /\ LastAttempt(p).wrote
    /\ ~HasLicenseLine(LastAttempt(p).log)
    /\ \A i \in MarkerAt(LastAttempt(p).log) : WellFormed(LastAttempt(p).log[i])

Resolved(token) == IF cfg.output_dir = None THEN token ELSE cfg.output_dir

AllFiles == workdir \cup {d.file : d \in dirs}

\* C1: a call whose log exists and holds neither the license failure nor a
\* marker line ends in EnergyError, and from the moment the error leaves
\* the activation no file named by the attempt's token is left in the
\* working directory: the attempt's files and every other file so named
\* are in the resolved output directory.
C1_ErrorAfterRelocation ==
    \A p \in Callers :
        ( /\ pc[p] \in {"unwind", "done"}
          /\ LastAttempt(p).wrote
          /\ ~HasLicenseLine(LastAttempt(p).log)
          /\ MarkerAt(LastAttempt(p).log) = {} )
        => LET token == LastAttempt(p).token
           IN  /\ result[p] = Raise("EnergyError")
               /\ \A f \in workdir : ~StartsWith(f.name, token)
               /\ \A f \in AllFiles :
                    (f.by = <<p, Len(hist[p])>> \/ StartsWith(f.name, token))
                    => \E d \in dirs : d.file = f /\ d.dir = Resolved(token)

C1_Witness ==
    /\ Done(1)
    /\ result[1] = Raise("EnergyError")
    /\ Len(hist[1]) = 2
    /\ LastAttempt(1).log = <<BareLine>>
    /\ Cardinality({d \in dirs : d.mover = <<1, 2>>}) >= 4

\* C2: when the call has ended, no file made by an attempt that ended in a
\* value, in EnergyError or in a license retry is left in the working
\* directory.
C2_RelocationOnEveryPath ==
    \A p \in Callers :
        Done(p) =>
            \A k \in Attempts(p) :
                hist[p][k].end \in {"value", "EnergyError", "retry"}
                => \A f \in workdir : f.by # <<p, k>>

C4_LastLineWins ==
    \A p \in Callers :
        ( /\ Done(p)
          /\ CleanLog(p)
          /\ Cardinality(MarkerAt(LastAttempt(p).log)) >= 2 )
        => result[p] = Value(LastMarkerLine(LastAttempt(p).log).val)

C4_Witness ==
    /\ Done(1)
    /\ LastAttempt(1).log = <<TenLine, OtherLine, GoodLine>>
    /\ result[1] = Value(<<-123456, 3>>)

\* C5: after n >= 1 attempts that met the license failure and a last
\* attempt whose log holds a well-formed marker line, the caller gets the
\* last attempt's value; every attempt has its own token and its files
\* carry that token; every earlier attempt ended in a retry.
C5_RetryTransparent ==
    \A p \in Callers :
        ( /\ Done(p)
          /\ Len(hist[p]) >= 2
          /\ CleanLog(p)
          /\ MarkerAt(LastAttempt(p).log) # {} )
        => /\ result[p] = Value(LastMarkerLine(LastAttempt(p).log).val)
           /\ \A j, k \in Attempts(p) :
                j # k => hist[p][j].token # hist[p][k].token
           /\ \A k \in Attempts(p) : \A f \in AllFiles :
                f.by = <<p, k>> => StartsWith(f.name, hist[p][k].token)
           /\ \A k \in 1..(Len(hist[p]) - 1) :
                /\ hist[p][k].end = "retry"
                /\ HasLicenseLine(hist[p][k].log)

C5_Witness ==
    /\ Done(1)
    /\ Len(hist[1]) = MaxDepth
    /\ LastAttempt(1).log = <<GoodLine>>
    /\ result[1] = Value(<<-123456, 3>>)

\* C6: whenever the call ends without a value, it ends in EnergyError.
C6_OnlyEnergyError ==
    \A p \in Callers :
        Done(p) /\ result[p].kind # "value" => result[p].kind = "EnergyError"

\* C7: all attempts of all callers have different tokens, and a relocation
\* moves only files of the attempt that runs it.
C7_NoInterference ==
    /\ \A p, q \in Callers : \A j \in Attempts(p), k \in Attempts(q) :
          <<p, j>> # <<q, k>> => hist[p][j].token # hist[q][k].token
    /\ \A d \in dirs : d.file.by = d.mover

\* C8: the retry has no limit.  The call comes back only from an attempt
\* whose log does not hold the license failure; until then every attempt
\* made is an unfinished activation, each license failure adds one, and
\* none is left before a result exists; and when the license failures
\* stop, the call does come back.
Returned == Done(1) => ~(LastAttempt(1).wrote /\ HasLicenseLine(LastAttempt(1).log))

Nested == pc[1] \notin {"unwind", "done"} => Len(stack[1]) = Len(hist[1])

C8_RetryUnbounded ==
    /\ [][/\ Returned'
          /\ Nested'
          /\ pc[1] = "call" /\ pc'[1] # "call"
                => Len(stack'[1]) = Len(stack[1]) + 1
          /\ Len(stack'[1]) < Len(stack[1]) => pc[1] = "unwind"]_vars
    /\ <>Done(1)

C8_Witness ==
    /\ pc[1] = "call"
    /\ Len(stack[1]) = MaxDepth - 1
    /\ \A k \in Attempts(1) : hist[1][k].end = "retry"

\* C9: every relocation goes into the configured output directory when
\* there is one and otherwise into the directory named by the token of the
\* attempt that relocates, which is the last attempt; the configuration
\* never changes.
RelocatedInto ==
    \A d \in dirs :
        /\ d.mover[2] = Len(hist[d.mover[1]])
        /\ d.dir = Resolved(hist[d.mover[1]][d.mover[2]].token)
        /\ hist[d.mover[1]][d.mover[2]].dir = d.dir

C9_OutputDirectory == [][RelocatedInto' /\ cfg' = cfg]_vars

C9_Witness ==
    /\ cfg.output_dir = None
    /\ Len(hist[1]) = 2
    /\ \E d \in dirs : d.mover = <<1, 2>> /\ d.dir = hist[1][2].token

\* C10: an attempt whose log holds the license failure never yields a
\* value or an EnergyError, also when the log holds a well-formed marker
\* line: it stops at the license check and is followed by an attempt with
\* another token.
C10_LicenseFirst ==
    \A p \in Callers : \A k \in Attempts(p) :
        hist[p][k].wrote /\ HasLicenseLine(hist[p][k].log)
        => /\ hist[p][k].end \in {"running", "retry"}
           /\ hist[p][k].end = "running"
                => k = Len(hist[p]) /\ pc[p] = "read_log"
           /\ k < Len(hist[p]) => hist[p][k + 1].token # hist[p][k].token

C10_Witness ==
    /\ Len(hist[1]) = 2
    /\ hist[1][1].log = <<LicenseLine, GoodLine>>
    /\ hist[1][1].end = "retry"
    /\ Done(1)

=============================================================================
